---- MODULE Spec2Model ----
(***************************************************************************)
(* tdw_physics: the dataset drivers (Dataset.run / trial_loop / trial and  *)
(* the older PhysicsDataset.run / trial), the per-frame writers            *)
(* (TransformsDataset, RigidbodiesDataset, TrialWriter, RigidbodyWriter)   *)
(* and the output directory they write to.                                 *)
(*                                                                         *)
(* One process runs at a time.  It can be killed between any two steps     *)
(* (Kill) and the same command can be started again (Restart).             *)
(***************************************************************************)
EXTENDS Integers, Sequences, FiniteSets, TLC

\* ---------------------------------------------------------------- bounds
\* largest trial count given on the command line (--num)
MaxNum == 2
\* number of loop iterations after which a trial of the short
\* specification is no longer continued
MaxFrame == 3
\* the same horizon for the long-running specification
LongMaxFrame == 10001

\* the ids Controller.get_unique_id() draws from are 1 .. MaxId
MaxId == 4

\* the middle objects (blocks) of a trial
MaxMiddle == 1

\* the points a random position is drawn from are 0 .. MaxPoint
MaxPoint == 2

\* the largest max_tries _get_object_position is called with
MaxTries == 3

\* the seeds a controller is constructed with are 0 .. MaxSeed
MaxSeed == 1

\* the trials of a run of Drop
MaxDrops == 2

\* ------------------------------------------------------ program constants
\* physics_dataset.py:123  while not done and frame < 1000
FrameCap == 1000
\* width argument of TDWUtils.zero_padding(i, 4)
PadWidth == 4
\* rigidbodies_dataset.py:359  tr[...]["pos"][1] >= -1
AbyssY == -1
\* "sleeping and frame_num < 300" (stability.py:179, drop.py:297)
SleepGate == 300
\* Stability.is_done: "frame > 500"
StabilityDone == 500

\* the rounds of the loop of Squishing.push_into_other
PushTries == 1000
\* Submerge.is_done: "frame > 200"
SubmergeDone == 200
\* Drop.is_done: "frame > 300"
DropDone == 300
\* the id of the fluid object of Submerge (self.fluid_id), not in object_ids
FluidId == 3

\* object ids a response record can hold an entry for, and the y positions
\* that occur (below, at and above the abyss threshold)
Ids == {1, 2}
Ys == {-2, -1, 0}

\* ----------------------------------------------------------- file names
\* str(n): the decimal digits of n
RECURSIVE Str(_)
Str(n) == IF n < 10 THEN <<n>> ELSE Append(Str(n \div 10), n % 10)

\* s.zfill(w)
RECURSIVE ZFill(_, _)
ZFill(s, w) == IF Len(s) >= w THEN s ELSE ZFill(<<0>> \o s, w)

\* TDWUtils.zero_padding(integer, width) = str(integer).zfill(width)
zero_padding(n, w) == ZFill(Str(n), w)

\* int(f.stem)
RECURSIVE ParseInt(_)
ParseInt(s) == IF Len(s) = 0 THEN 0
               ELSE 10 * ParseInt(SubSeq(s, 1, Len(s) - 1)) + s[Len(s)]

\* lexicographic order of two names (str.__lt__)
RECURSIVE LexLess(_, _)
LexLess(a, b) ==
    IF Len(b) = 0 THEN FALSE
    ELSE IF Len(a) = 0 THEN TRUE
    ELSE IF a[1] # b[1] THEN a[1] < b[1]
    ELSE LexLess(Tail(a), Tail(b))

\* output_dir.joinpath(zero_padding(i, 4) + ".hdf5"), named by its stem
FinalPath(i) == zero_padding(i, PadWidth)

\* ------------------------------------------------------- archive content
\* The frame groups of an archive, in creation order, run-length encoded:
\* <<[lo |-> 0, hi |-> 4]>> is the groups 0000 .. 0004.
InRuns(runs, n) == \E k \in 1..Len(runs) : runs[k].lo <= n /\ n <= runs[k].hi

AddRun(runs, n) ==
    IF Len(runs) > 0 /\ runs[Len(runs)].hi + 1 = n
    THEN [runs EXCEPT ![Len(runs)].hi = n]
    ELSE Append(runs, [lo |-> n, hi |-> n])

\* no file at a path
\* the per-object arrays of a frame group before anything is written to it
NoArrays == [positions |-> <<>>, velocities |-> <<>>]

\* the object ids get_trial_initialization_commands registers
TrialObjectIds == <<1, 2>>

\* static_ids is the dataset static/object_ids, last the per-object arrays
\* of the frame group that was created last
NoFile == [exists |-> FALSE, trial |-> -1, static |-> FALSE, frames |-> <<>>,
           labels |-> <<>>, closed |-> FALSE, whole |-> FALSE,
           static_ids |-> <<>>, last |-> NoArrays]

\* h5py.File(path, "a") on a path that does not exist
NewFile(t) == [exists |-> TRUE, trial |-> t, static |-> FALSE, frames |-> <<>>,
               labels |-> <<>>, closed |-> FALSE, whole |-> TRUE,
               static_ids |-> <<>>, last |-> NoArrays]

\* a trial file left by an earlier, complete trial
DoneFile(t) == [exists |-> TRUE, trial |-> t, static |-> TRUE,
                frames |-> <<[lo |-> 0, hi |-> 1]>>,
                labels |-> <<[lo |-> 0, hi |-> 1]>>,
                closed |-> TRUE, whole |-> TRUE,
                static_ids |-> TrialObjectIds,
                last |-> [positions |-> <<TRUE, TRUE>>,
                          velocities |-> <<>>]]

\* faulty variant: the check of the final path always answers "no file"
Exists_never(fs, name) == FALSE

\* path.exists()
Exists(fs, name) == name \in DOMAIN fs

\* the directory after a file was put at name
Put(fs, name, c) == [n \in DOMAIN fs \cup {name} |-> IF n = name THEN c ELSE fs[n]]


\* ------------------------------------------------------------ responses
\* A response batch: which records it holds (imag, tran, rigi) and, per
\* record, the entries by object id: tr[id] is the y position the Transforms
\* record reports, rb[id] is TRUE when the Rigidbodies record reports the
\* object sleeping.
Empty == [x \in {} |-> 0]

Entries(V) == UNION {[S -> V] : S \in SUBSET Ids}

Resp(im, tn, ri, t, r) == [imag |-> im, tran |-> tn, rigi |-> ri, tr |-> t, rb |-> r]

NoResp == Resp(FALSE, FALSE, FALSE, Empty, Empty)

\* every response batch over Ids and Ys
AllResponses ==
    {Resp(im, tn, ri, t, r) :
        im \in BOOLEAN, tn \in BOOLEAN, ri \in BOOLEAN,
        t \in Entries(Ys), r \in Entries(BOOLEAN)}

WellFormedRecords(r) == (~r.tran => r.tr = Empty) /\ (~r.rigi => r.rb = Empty)

FullResponses == {r \in AllResponses : WellFormedRecords(r)}

\* a few batches that stand for the cases the drivers tell apart
AllAt(v) == [x \in Ids |-> v]
Responses ==
    { Resp(TRUE, TRUE, TRUE, AllAt(0), AllAt(TRUE)),
      Resp(TRUE, TRUE, TRUE, AllAt(0), [x \in Ids |-> x # 1]),
      Resp(FALSE, TRUE, TRUE, AllAt(0), [x \in Ids |-> x # 1]),
      Resp(TRUE, FALSE, TRUE, Empty, [x \in Ids |-> x # 1]),
      Resp(TRUE, TRUE, TRUE, AllAt(0), [x \in {1} |-> FALSE]),
      Resp(TRUE, TRUE, FALSE, AllAt(0), Empty),
      Resp(FALSE, TRUE, FALSE, AllAt(0), Empty),
      Resp(TRUE, FALSE, FALSE, Empty, Empty) }

\* the batches a scenario can receive: send_rigidbodies is requested by
\* RigidbodiesDataset._get_send_data_commands only
Receivable(R, sc) == IF sc.writer = "Transforms" THEN {r \in R : ~r.rigi} ELSE R

\* the ids of a record's entries in the order the record lists them
RECURSIVE InOrder(_)
InOrder(S) ==
    IF S = {} THEN <<>>
    ELSE LET m == CHOOSE x \in S : \A y \in S : x <= y
         IN <<m>> \o InOrder(S \ {m})

\* ---------------------------------------------------------------- writers
\* faulty variant: one row per entry of the record
Assigned_by_entries(ids, present, dict) ==
    [k \in 1..Cardinality(DOMAIN dict) |-> TRUE]

\* An array of num_objects rows from np.empty and the loop over
\* zip(self.object_ids, range(num_objects)) that fills it
\* (transforms_dataset.py:66-90, rigidbodies_dataset.py:339-364): row k is
\* assigned when the record is in the response and has an entry for
\* ids[k]; any other row keeps what the memory held.  TRUE marks an
\* assigned row.
Assigned(ids, present, dict) ==
    [k \in 1..Len(ids) |-> present /\ ids[k] \in DOMAIN dict]

\* TransformsDataset._write_frame: create the frame group, join the
\* Transforms entries to the object ids, never "done".
TransformsWriteFrame(f, r, n, ids) ==
    IF InRuns(f.frames, n)
    THEN [raised |-> TRUE, file |-> f, sleeping |-> FALSE, tr |-> Empty]
    ELSE LET tr_dict == IF r.tran THEN r.tr ELSE Empty
         IN [raised |-> FALSE,
             file |-> [f EXCEPT !.frames = AddRun(@, n),
                                !.last = [positions |-> Assigned(ids, r.tran, tr_dict),
                                          velocities |-> <<>>]],
             sleeping |-> FALSE,
             tr |-> tr_dict]

\* faulty variant: an object exactly at y = -1 counts as fallen into the abyss
Awake_strict(rb, tr, id) == ~rb[id] /\ tr[id] > AbyssY

\* the test of rigidbodies_dataset.py:359 for one entry
Awake(rb, tr, id) == ~rb[id] /\ tr[id] >= AbyssY

\* the loop over the entries of the Rigidbodies record (lines 355-360):
\* sleeping starts TRUE and is cleared by an entry that is not sleeping and
\* not in the abyss; tr[id] of an id without Transforms entry is a KeyError
RECURSIVE SleepLoop(_, _, _, _)
SleepLoop(ids, rb, tr, acc) ==
    IF Len(ids) = 0 THEN acc
    ELSE LET id == Head(ids) IN
         IF ~rb[id] /\ id \notin DOMAIN tr
         THEN [raised |-> TRUE, sleeping |-> acc.sleeping]
         ELSE SleepLoop(Tail(ids), rb, tr,
                        [raised |-> acc.raised,
                         sleeping |-> IF Awake(rb, tr, id) THEN FALSE ELSE acc.sleeping])

\* RigidbodiesDataset._write_frame after the call of super()._write_frame
RigidbodiesRecord(r, tr, ids) ==
    IF ~r.rigi THEN [raised |-> FALSE, sleeping |-> TRUE]
    ELSE LET loop == SleepLoop(InOrder(DOMAIN r.rb), r.rb, tr,
                               [raised |-> FALSE, sleeping |-> TRUE])
         IN IF loop.raised THEN loop
            ELSE [raised |-> \E k \in 1..Len(ids) : ids[k] \notin DOMAIN r.rb,
                  sleeping |-> loop.sleeping]

RigidbodiesWriteFrame(f, r, n, ids) ==
    LET sup == TransformsWriteFrame(f, r, n, ids) IN
    IF sup.raised THEN sup
    ELSE LET ri == RigidbodiesRecord(r, sup.tr, ids)
         IN [raised |-> ri.raised,
             file |-> IF ri.raised THEN sup.file
                      ELSE [sup.file EXCEPT
                              !.last.velocities = Assigned(ids, r.rigi, r.rb)],
             sleeping |-> ri.sleeping, tr |-> sup.tr]

\* self._write_frame of the scenario's dataset class
WriteFrame(sc, f, r, n, ids) ==
    IF sc.writer = "Transforms" THEN TransformsWriteFrame(f, r, n, ids)
    ELSE LET w == RigidbodiesWriteFrame(f, r, n, ids)
         IN IF sc.gated THEN [w EXCEPT !.sleeping = @ /\ n < SleepGate] ELSE w

\* TrialWriter.write_frame: as TransformsDataset._write_frame, but an object
\* id without Transforms entry is a KeyError (no "continue")
TrialWriterWriteFrame(f, r, n, ids) ==
    IF InRuns(f.frames, n)
    THEN [raised |-> TRUE, file |-> f, sleeping |-> FALSE, tr |-> Empty]
    ELSE LET tr_dict == IF r.tran THEN r.tr ELSE Empty
             raised  == r.tran /\ \E k \in 1..Len(ids) : ids[k] \notin DOMAIN r.tr
         IN [raised |-> raised,
             file |-> [f EXCEPT !.frames = AddRun(@, n),
                                !.last = IF raised THEN NoArrays
                                         ELSE [positions |-> Assigned(ids, r.tran, tr_dict),
                                               velocities |-> <<>>]],
             sleeping |-> FALSE,
             tr |-> tr_dict]

\* RigidbodyWriter.write_frame
RigidbodyWriterWriteFrame(f, r, n, ids) ==
    LET sup == TrialWriterWriteFrame(f, r, n, ids) IN
    IF sup.raised THEN sup
    ELSE LET ri == RigidbodiesRecord(r, sup.tr, ids)
         IN [raised |-> ri.raised,
             file |-> IF ri.raised THEN sup.file
                      ELSE [sup.file EXCEPT
                              !.last.velocities = Assigned(ids, r.rigi, r.rb)],
             sleeping |-> ri.sleeping, tr |-> sup.tr]

\* ----------------------------------------------------------- static data
\* Each per-object list holds, for every entry, the id of the object the
\* entry describes. masses stands for masses, dynamic_frictions,
\* static_frictions and bouncinesses, which are appended to together.
\* clear_static_data (dataset.py:53-55, rigidbodies_dataset.py:136-144)
\* physics_info holds the keys of self.physics_info, which __init__ makes empty
\* (rigidbodies_dataset.py:130); target_color is self.target_color of
\* Dominoes, NoColor when no --color is given (dominoes.py:212)
NoColor == 0
Colors == {1, 2}

NoLists == [object_ids |-> <<>>, masses |-> <<>>, colors |-> <<>>, scales |-> <<>>,
            object_id_counter |-> 0, physics_info |-> {}, target_color |-> NoColor]

\* clear_static_data of Dataset, RigidbodiesDataset and Dominoes: the
\* attributes it assigns are reset, the others stay
clear_static_data(l) ==
    [NoLists EXCEPT !.physics_info = l.physics_info, !.target_color = l.target_color]

\* random_primitive: color if color is not None else self.random_color(...),
\* rgb being what random_color returns
ColorOf(color, rgb) == IF color # NoColor THEN color ELSE rgb

\* a file without static group
NoStatic == [written |-> FALSE, object_ids |-> <<>>, mass |-> <<>>, color |-> <<>>,
             scale |-> <<>>]

\* RigidbodiesDataset.random_primitive for the object that gets the id
random_primitive(l, id) ==
    [l EXCEPT !.scales = Append(@, id), !.colors = Append(@, id)]

\* TransformsDataset.add_transforms_object(o_id = id)
add_transforms_object(l, id) == [l EXCEPT !.object_ids = Append(@, id)]

\* RigidbodiesDataset.add_physics_object(o_id = id)
add_physics_object(l, id) ==
    [add_transforms_object(l, id) EXCEPT !.masses = Append(@, id),
                                         !.physics_info = @ \cup {id}]

\* self.object_ids = self.object_ids[:-1]
DropLastId(l) ==
    [l EXCEPT !.object_ids = SubSeq(@, 1, Len(@) - 1)]

\* Dataset._write_static_data and RigidbodiesDataset._write_static_data
write_static_data(l) ==
    [written |-> TRUE, object_ids |-> l.object_ids, mass |-> l.masses,
     color |-> l.colors, scale |-> l.scales]

\* ------------------------------------------------------ batches by order
\* A record as the build sends it: its entries, [id, v], in some order; v
\* is the position y of a Transforms entry, and 1 (0) in a Rigidbodies
\* entry that reports sleeping (not sleeping).
\* tr_dict.update({tr.get_id(i): ...}) for i in range(tr.get_num())
Update(dict, key, v) ==
    [x \in DOMAIN dict \cup {key} |-> IF x = key THEN v ELSE dict[x]]

\* faulty variant: the loop index is used as the key
AsDict_by_index(entries, acc) ==
    [x \in DOMAIN acc \cup (1..Len(entries)) |->
        IF x \in 1..Len(entries) THEN entries[x].v ELSE acc[x]]

RECURSIVE AsDict(_, _)
AsDict(entries, acc) ==
    IF entries = <<>> THEN acc
    ELSE AsDict(Tail(entries), Update(acc, Head(entries).id, Head(entries).v))

HasType(records, type) == \E k \in 1..Len(records) : records[k].type = type

\* tr_dict is made once and updated by every Transforms record
\* (transforms_dataset.py:73-83)
RECURSIVE TrDictOf(_, _)
TrDictOf(records, acc) ==
    IF records = <<>> THEN acc
    ELSE TrDictOf(Tail(records),
                  IF Head(records).type = "tran"
                  THEN AsDict(Head(records).entries, acc) ELSE acc)

\* ri_dict is made anew for every Rigidbodies record
\* (rigidbodies_dataset.py:352-357)
RECURSIVE RiDictOf(_, _)
RiDictOf(records, acc) ==
    IF records = <<>> THEN acc
    ELSE RiDictOf(Tail(records),
                  IF Head(records).type = "rigi"
                  THEN AsDict(Head(records).entries, Empty) ELSE acc)

\* the batch as the two dictionaries the writer builds of it
AsResp(records) ==
    LET ri_dict == RiDictOf(records, Empty)
    IN Resp(HasType(records, "imag"), HasType(records, "tran"), HasType(records, "rigi"),
            TrDictOf(records, Empty), [id \in DOMAIN ri_dict |-> ri_dict[id] = 1])

\* the values of the rows: <<v>> in an assigned row, <<>> in a row that
\* keeps what the memory held
Joined(ids, present, dict) ==
    [k \in 1..Len(ids) |->
        IF Assigned(ids, present, dict)[k] THEN <<dict[ids[k]]>> ELSE <<>>]

\* nothing written yet for the object-ID list ids
Unwritten(ids) ==
    [ids |-> ids, written |-> FALSE, raised |-> FALSE, sleeping |-> FALSE,
     positions |-> <<>>, velocities |-> <<>>]

\* RigidbodiesDataset._write_frame on frame 0 of a new file
FrameOf(records, ids) ==
    LET r == AsResp(records)
        w == RigidbodiesWriteFrame(NewFile(0), r, 0, ids)
    IN [ids |-> ids, written |-> TRUE, raised |-> w.raised, sleeping |-> w.sleeping,
        positions |-> Joined(ids, r.tran, r.tr),
        velocities |-> IF w.raised THEN <<>>
                       ELSE Joined(ids, r.rigi, RiDictOf(records, Empty))]

\* faulty variant: "return frame >= N"
is_done_from(sc, r, n) == sc.done = "frame" /\ n >= sc.done_after

\* Dataset.is_done (returns False) and the overrides "return frame > N"
is_done(sc, r, n) == sc.done = "frame" /\ n > sc.done_after

\* the three datasets of the labels group (dataset.py:459-464)
Labels(sl, cmpl) ==
    [trial_end |-> sl \/ cmpl,
     trial_timeout |-> sl /\ ~cmpl,
     trial_complete |-> cmpl /\ ~sl]

\* faulty variant: the trial is over only when both reasons hold
WriteFrameLabels_and(sc, f, r, grp, n, sl) ==
    LET cmpl == IF n > 0 THEN is_done(sc, r, n) ELSE FALSE
    IN [file |-> [f EXCEPT !.labels = AddRun(@, grp)],
        complete |-> cmpl,
        done |-> sl /\ cmpl]

\* Dataset._write_frame_labels(frame_grp, resp, frame_num, sleeping): the
\* labels group goes into the frame group grp
WriteFrameLabels(sc, f, r, grp, n, sl) ==
    LET cmpl == IF n > 0 THEN is_done(sc, r, n) ELSE FALSE
    IN [file |-> [f EXCEPT !.labels = AddRun(@, grp)],
        complete |-> cmpl,
        done |-> sl \/ cmpl]


\* ------------------------------------------------------------------ state
VARIABLES
    driver,        \* "Dataset" or "PhysicsDataset": the class whose run() is used
    num,           \* --num
    scenario,      \* the scenario class: its writer and its is_done
    files,         \* the trial files of the output directory, by stem
    temp,          \* the file at temp_path
    pc,            \* where the process is
    exists_up_to,  \* trial_loop's / run's exists_up_to
    i,             \* the index of the for loop over the trials
    object_ids,    \* self.object_ids
    frame,         \* trial's frame
    done,          \* trial's done
    resp,          \* trial's resp, the last response batch
    sleeping,      \* what the last _write_frame returned as "done"
    complete,      \* what the last is_done returned
    cmd_frame,     \* the frame the last per-frame commands were requested for
    executed,      \* the trials this process has started, in order
    terminated,    \* the terminate command was sent
    start_fs,      \* the output directory as this process found it
    prev_exit,     \* how the previous process ended: "none", "normal", "killed"
    killed_at,     \* where the process was when it died
    host,          \* the objects alive in the build: [id, trial]
    destroys       \* the ids of the destroy commands sent when the loop was left

\* The routines below are exercised on their own, outside a run.
VARIABLES
    batch,         \* a response batch: records in the order they arrived
    written,       \* the frame _write_frame made of the batch
    lists,         \* self.object_ids and the per-object lists of static data
    static_group,  \* the static group of the trial's file
    build,         \* the scenario that builds a trial, how far it is, and what
                   \* random_color returns in it (rgb)
    place,         \* a call of a placement routine: its arguments and locals
    drop_cfg,      \* the arguments two Drop controllers are constructed with
    drops          \* the two runs of Drop: generator state, trial index, static data

VARIABLES
    argv,          \* a command line, and how far the script it starts has come
    occl,          \* a trial of Occlusion: its command list and its frames
    toys           \* a trial of ToysDataset: the positions recorded and commanded

run_vars == <<driver, num, scenario, files, temp, pc, exists_up_to, i, object_ids,
              frame, done, resp, sleeping, complete, cmd_frame, executed,
              terminated, start_fs, prev_exit, killed_at, host, destroys>>

join == <<batch, written>>
builder == <<lists, static_group, build>>
dropping == <<drop_cfg, drops>>
more == <<argv, occl, toys>>
beside_argv == <<occl, toys>>
beside_occl == <<argv, toys>>
beside_toys == <<argv, occl>>
aside == <<join, builder, place, dropping, more>>

vars == <<run_vars, aside>>

config == <<driver, num, scenario>>
history == <<start_fs, prev_exit, killed_at>>
locals == <<object_ids, frame, done, resp, sleeping, complete, cmd_frame>>
world == <<host, destroys>>

\* the highest stem of the directory: the loop of dataset.py:216-219
ExistsUpTo(fs) ==
    LET stems == {ParseInt(n) : n \in DOMAIN fs}
    IN IF \E s \in stems : s > 0
       THEN CHOOSE s \in stems : \A t \in stems : t <= s
       ELSE 0

\* a leftover of a trial that was interrupted
StaleTemp == [NewFile(0) EXCEPT !.static = TRUE,
                                !.static_ids = TrialObjectIds,
                                !.last = [positions |-> <<TRUE, TRUE>>,
                                          velocities |-> <<>>],
                                !.frames = <<[lo |-> 0, hi |-> 0]>>,
                                !.labels = <<[lo |-> 0, hi |-> 0]>>]

\* the process dies (a kill, or an uncaught exception): its memory is gone
Die(where) ==
    /\ pc' = "crashed"
    /\ killed_at' = where
    /\ object_ids' = <<>>
    /\ frame' = 0
    /\ done' = FALSE
    /\ resp' = NoResp
    /\ sleeping' = FALSE
    /\ complete' = FALSE
    /\ cmd_frame' = 0


\* scenario classes: a TransformsDataset or RigidbodiesDataset subclass that
\* keeps Dataset.is_done or overrides it with "return frame > N"; gated is
\* TRUE for a class that overrides _write_frame as Stability does
Scenario(w, d, n) ==
    [writer |-> w, done |-> d, done_after |-> n, gated |-> FALSE, fluid |-> FALSE]

\* controllers/submerging.py: Submerge, a TransformsDataset whose trial
\* initialization creates a fluid object besides the objects of object_ids
Submerge ==
    [Scenario("Transforms", "frame", SubmergeDone) EXCEPT !.fluid = TRUE]

\* the objects the trial initialization commands of trial t add
TrialObjects(t) == {[id |-> TrialObjectIds[k], trial |-> t] : k \in 1..Len(TrialObjectIds)}

\* the build after the trial initialization commands of trial t: Submerge
\* destroys the fluid of the trial before (destroy_flex_object with
\* self.fluid_id) and creates a new one (create_fluid)
InitCommands(sc, h, t) ==
    IF sc.fluid
    THEN (h \ {o \in h : o.id = FluidId}) \cup TrialObjects(t)
             \cup {[id |-> FluidId, trial |-> t]}
    ELSE h \cup TrialObjects(t)

\* the ids of the destroy commands of dataset.py:323-326, one per entry of
\* object_ids
DestroyCommands(ids) == [k \in 1..Len(ids) |-> ids[k]]

\* the build after the destroy commands cmds of trial t
Destroyed(h, cmds, t) == h \ {[id |-> cmds[k], trial |-> t] : k \in 1..Len(cmds)}

\* controllers/stability.py: Stability._write_frame and Stability.is_done
Stability ==
    [Scenario("Rigidbodies", "frame", StabilityDone) EXCEPT !.gated = TRUE]

\* Drop: is_done is "frame > 300", _write_frame returns
\* "sleeping and frame_num < 300" (drop.py:288-300)
Drop ==
    [Scenario("Rigidbodies", "frame", DropDone) EXCEPT !.gated = TRUE]

Scenarios ==
    { Scenario("Rigidbodies", "base", 0),
      Scenario("Rigidbodies", "frame", 1),
      Scenario("Transforms", "frame", 1) }

\* the directories a batch can find: complete trial files of earlier runs
Directories ==
    {[n \in {FinalPath(t) : t \in S} |-> DoneFile(ParseInt(n))] : S \in SUBSET (0..(MaxNum - 1))}

InitRun(drivers, nums, scenarios, dirs) ==
    /\ driver \in drivers
    /\ num \in nums
    /\ scenario \in scenarios
    /\ driver = "PhysicsDataset" => scenario.writer = "Rigidbodies" /\ scenario.done = "base"
    /\ files \in dirs
    /\ temp \in {NoFile, StaleTemp}
    /\ pc = "start"
    /\ exists_up_to = 0
    /\ i = 0
    /\ object_ids = <<>>
    /\ frame = 0
    /\ done = FALSE
    /\ resp = NoResp
    /\ sleeping = FALSE
    /\ complete = FALSE
    /\ cmd_frame = 0
    /\ executed = <<>>
    /\ terminated = FALSE
    /\ start_fs = files
    /\ prev_exit = "none"
    /\ killed_at = "none"
    /\ host = {}
    /\ destroys = <<>>

\* no batch is being joined
JoinIdle == batch = <<>> /\ written = Unwritten(<<>>)

\* no trial is being built
BuildIdle ==
    /\ lists = NoLists
    /\ static_group = NoStatic
    /\ build = [pc |-> "idle", scenario |-> "Dominoes", remove_target |-> FALSE,
                use_cap |-> FALSE, middle |-> 0, rgb |-> 1]

\* no placement routine is running
PlaceIdle ==
    place = [pc |-> "idle", routine |-> "get_object_position", object_positions |-> <<>>,
             max_tries |-> 0, o_pos |-> 0, p1 |-> 0, ok |-> FALSE, count |-> 0]

\* no Drop controller exists
DropIdle ==
    /\ drop_cfg = [randomize |-> TRUE, seed |-> 0, height_range |-> <<0, 0>>, jitter |-> 0]
    /\ drops = <<>>

\* ------------------------------------------------------------------ arguments
\* the names of the model library
MODEL_NAMES == {"cube", "cone"}

\* names a command line can give
Names == MODEL_NAMES \cup {"bogus"}

\* python values an argument can be turned into; kind "invalid" stands for
\* a text json.loads refuses
Value(kind, len, keys, numeric) ==
    [kind |-> kind, len |-> len, keys |-> keys, numeric |-> numeric]

NotJson == Value("invalid", 0, {}, FALSE)
NoValue == Value("none", 0, {}, FALSE)

\* a command-line text: its characters, whether float() takes each of its
\* comma-separated parts, what json.loads makes of it, and whether it
\* denotes a number, a pair of numbers or an x/y/z triple
Arg(text, chars, parts, json, range) ==
    [text |-> text, chars |-> chars, parts |-> parts, json |-> json, range |-> range]

NoArg == Arg("", 0, <<>>, NotJson, FALSE)

RangeArgs ==
    { Arg("[0.2,0.3]", 9, <<FALSE, FALSE>>, Value("list", 2, {}, TRUE), TRUE),
      Arg("[0.2]", 5, <<FALSE>>, Value("list", 1, {}, TRUE), FALSE),
      Arg("[\"a\",\"b\"]", 9, <<FALSE, FALSE>>, Value("list", 2, {}, FALSE), FALSE),
      Arg("{\"x\":1,\"y\":1,\"z\":1}", 19, <<FALSE, FALSE, FALSE>>,
          Value("dict", 3, {"x", "y", "z"}, TRUE), TRUE),
      Arg("{\"x\":1}", 7, <<FALSE>>, Value("dict", 1, {"x"}, TRUE), FALSE),
      Arg("{\"class\":[\"m\",\"k\"],\"data\":1}", 28, <<FALSE, FALSE, FALSE>>,
          Value("dict", 2, {"class", "data"}, FALSE), FALSE),
      Arg("0.25", 4, <<TRUE>>, Value("num", 0, {}, TRUE), TRUE),
      Arg("\"ab\"", 4, <<FALSE>>, Value("str", 2, {}, FALSE), FALSE),
      Arg("0.1,0.5,0.25", 12, <<TRUE, TRUE, TRUE>>, NotJson, TRUE),
      Arg("0.1,0.5,x", 9, <<TRUE, TRUE, FALSE>>, NotJson, FALSE),
      Arg("1,", 2, <<TRUE, FALSE>>, NotJson, FALSE),
      Arg("abc", 3, <<FALSE>>, NotJson, FALSE) }

\* what a function call gives: an exception or a value
Raise == [raised |-> TRUE, value |-> NoValue]
Return(v) == [raised |-> FALSE, value |-> v]

json_loads(a) == IF a.json = NotJson THEN Raise ELSE Return(a.json)

\* util.py: three parts become a dict of floats, any other text is returned
str_to_xyz(a) ==
    IF Len(a.parts) = 3
      THEN IF \A k \in 1..3 : a.parts[k]
             THEN Return(Value("dict", 3, {"x", "y", "z"}, TRUE))
             ELSE Raise
      ELSE Return(Value("str", a.chars, {}, FALSE))

\* the checks both handlers make of the value: 'class' in v, the keys of a
\* dict, the length of anything else that has one
CheckValue(v) ==
    CASE v.kind = "num" -> Raise
      [] "class" \in v.keys -> Raise
      [] v.kind = "dict" -> IF {"x", "y", "z"} \subseteq v.keys THEN Return(v) ELSE Raise
      [] OTHER -> IF v.len = 2 THEN Return(v) ELSE Raise

handle_random_transform_args(a) ==
    LET j == json_loads(a)
        v == IF j.raised THEN str_to_xyz(a) ELSE j
    IN IF v.raised THEN Raise ELSE CheckValue(v.value)

handle_scale_args(a) ==
    LET j == json_loads(a)
    IN IF j.raised THEN Raise ELSE CheckValue(j.value)

\* assert all([t in MODEL_NAMES for t in targ_list])
NamesAllowed(targ_list) == \A k \in 1..Len(targ_list) : targ_list[k] \in MODEL_NAMES

\* get_args of the script: the scale first, the names after it
get_args(script, target, tscale) ==
    LET s == IF script = "drop" THEN handle_scale_args(tscale)
                                ELSE handle_random_transform_args(tscale)
    IN IF s.raised \/ ~NamesAllowed(target) THEN Raise ELSE s

\* random.uniform(a, b) of two values that are not numbers raises
get_random_xyz_transform(v) ==
    CASE v.kind = "dict" -> IF v.numeric THEN Return(v) ELSE Raise
      [] v.kind \in {"list", "str"} -> IF v.numeric THEN Return(v) ELSE Raise
      [] v.kind = "num" -> Return(v)
      [] OTHER -> Raise

\* no script was started
ArgvIdle ==
    argv = [pc |-> "idle", script |-> "dominoes", target |-> <<>>, tscale |-> NoArg,
            scale |-> NoValue, raised |-> FALSE, sent |-> 0, trials |-> 0]

\* no trial of Occlusion was started
OcclIdle ==
    occl = [pc |-> "idle", n |-> 0, per_frame_commands |-> <<>>, frame |-> 0,
            done |-> FALSE, recorded |-> <<>>, resp |-> [imag |-> FALSE, tran |-> FALSE]]

\* no trial of ToysDataset was started
ToysIdle ==
    toys = [pc |-> "idle", num_objects |-> 0, object_positions |-> <<>>,
            commands |-> <<>>, exhausted |-> FALSE]

MoreIdle == ArgvIdle /\ OcclIdle /\ ToysIdle

AsideIdle == JoinIdle /\ BuildIdle /\ PlaceIdle /\ DropIdle /\ MoreIdle

InitWith(drivers, nums, scenarios, dirs) ==
    InitRun(drivers, nums, scenarios, dirs) /\ AsideIdle

\* a controller that was constructed and is not run
IdleRun ==
    InitRun({"Dataset"}, {0}, {Scenario("Rigidbodies", "base", 0)}, {Empty}) /\ temp = NoFile

Init == InitWith({"Dataset", "PhysicsDataset"}, 0..(MaxNum + 1), Scenarios, Directories)

\* ------------------------------------------------------- Dataset (driver)
\* Dataset.run up to the call of trial_loop: initialize the scene
DS_run ==
    /\ driver = "Dataset" /\ pc = "start"
    /\ pc' = "trial_loop"
    /\ UNCHANGED <<aside, world, config, files, temp, exists_up_to, i, locals, executed,
                   terminated, history>>

\* faulty variant: the for loop starts after exists_up_to, as in PhysicsDataset.run
DS_trial_loop_next ==
    /\ driver = "Dataset" /\ pc = "trial_loop"
    /\ temp' = NoFile
    /\ exists_up_to' = ExistsUpTo(files)
    /\ i' = ExistsUpTo(files) + 1
    /\ pc' = "for"
    /\ UNCHANGED <<aside, world, config, files, locals, executed, terminated, history>>

\* faulty variant: an incomplete temp file is left where it is
DS_trial_loop_keep_temp ==
    /\ driver = "Dataset" /\ pc = "trial_loop"
    /\ exists_up_to' = ExistsUpTo(files)
    /\ i' = ExistsUpTo(files)
    /\ pc' = "for"
    /\ UNCHANGED <<aside, world, config, files, temp, locals, executed, terminated, history>>

\* Dataset.trial_loop up to the for loop: remove an incomplete temp file,
\* scan the directory
DS_trial_loop ==
    /\ driver = "Dataset" /\ pc = "trial_loop"
    /\ temp' = NoFile
    /\ exists_up_to' = ExistsUpTo(files)
    /\ i' = ExistsUpTo(files)
    /\ pc' = "for"
    /\ UNCHANGED <<aside, world, config, files, locals, executed, terminated, history>>

\* for i in range(exists_up_to, num): the file of trial i exists
DS_skip ==
    /\ driver = "Dataset" /\ pc = "for"
    /\ i < num
    /\ Exists(files, FinalPath(i))
    /\ i' = i + 1
    /\ UNCHANGED <<aside, world, config, files, temp, pc, exists_up_to, locals, executed,
                   terminated, history>>

\* Dataset.trial up to the while loop: open the temp file, send the trial
\* initialization commands, write the static data, frame 0 and its labels.
\* create_group raises when the group is already in the file.
DS_trial(R) ==
    /\ driver = "Dataset" /\ pc = "for"
    /\ i < num
    /\ ~Exists(files, FinalPath(i))
    /\ executed' = Append(executed, i)
    /\ destroys' = <<>>
    /\ host' = InitCommands(scenario, host, i)
    /\ \E r \in Receivable(R, scenario) :
         LET f0 == IF temp.exists THEN temp ELSE NewFile(i)
             f1 == [f0 EXCEPT !.static = TRUE, !.static_ids = TrialObjectIds]
             w  == WriteFrame(scenario, f1, r, 0, TrialObjectIds)
             l  == WriteFrameLabels(scenario, w.file, r, 0, -1, FALSE)
         IN IF f0.static
            THEN temp' = f0 /\ Die("trial")
            ELSE IF w.raised
            THEN temp' = w.file /\ Die("trial")
            ELSE /\ temp' = l.file
                 /\ object_ids' = TrialObjectIds
                 /\ frame' = 0
                 /\ done' = FALSE
                 /\ resp' = r
                 /\ sleeping' = w.sleeping
                 /\ complete' = l.complete
                 /\ cmd_frame' = 0
                 /\ pc' = "loop"
                 /\ killed_at' = killed_at
    /\ UNCHANGED <<aside, config, files, exists_up_to, i, terminated, start_fs, prev_exit>>

\* faulty variant: only the image record is asked for
Malformed_imag_only(r) == ~r.imag

\* the test of dataset.py:312 on the record types of a response
Malformed(r) == ~r.imag \/ ~r.tran

\* one iteration of "while not done" (dataset.py:304-320); H bounds the
\* frames of the runs that are explored
DS_frame(R, H) ==
    /\ driver = "Dataset" /\ pc = "loop"
    /\ ~done
    /\ frame < H
    /\ \E r \in Receivable(R, scenario) :
         LET n == frame + 1
             w == WriteFrame(scenario, temp, r, n, object_ids)
             l == WriteFrameLabels(scenario, w.file, r, n, n, w.sleeping)
         IN IF Malformed(r)
            THEN /\ resp' = r
                 /\ cmd_frame' = n
                 /\ frame' = n - 1
                 /\ UNCHANGED <<temp, pc, object_ids, done, sleeping, complete, killed_at>>
            ELSE IF w.raised
            THEN temp' = w.file /\ Die("loop")
            ELSE /\ resp' = r
                 /\ cmd_frame' = n
                 /\ temp' = l.file
                 /\ frame' = n
                 /\ sleeping' = w.sleeping
                 /\ complete' = l.complete
                 /\ done' = l.done
                 /\ UNCHANGED <<pc, object_ids, killed_at>>
    /\ UNCHANGED <<aside, world, config, files, exists_up_to, i, executed, terminated,
                   start_fs, prev_exit>>

\* faulty variant: the last object of the list gets no destroy command
DS_cleanup_but_last ==
    /\ driver = "Dataset" /\ pc = "loop"
    /\ destroys' = SubSeq(DestroyCommands(object_ids), 1, Len(object_ids) - 1)
    /\ host' = Destroyed(host, SubSeq(DestroyCommands(object_ids), 1, Len(object_ids) - 1), i)
    /\ done
    /\ pc' = "close"
    /\ UNCHANGED <<aside, config, files, temp, exists_up_to, i, locals, executed,
                   terminated, history>>

\* the loop has ended: destroy the objects of the trial (dataset.py:322-327)
DS_cleanup ==
    /\ driver = "Dataset" /\ pc = "loop"
    /\ destroys' = DestroyCommands(object_ids)
    /\ host' = Destroyed(host, DestroyCommands(object_ids), i)
    /\ done
    /\ pc' = "close"
    /\ UNCHANGED <<aside, config, files, temp, exists_up_to, i, locals, executed,
                   terminated, history>>

\* faulty variant: the archive is put at its final path when it is closed, before
\* the move step
DS_close_early_move ==
    /\ driver = "Dataset" /\ pc = "close"
    /\ temp' = [temp EXCEPT !.closed = TRUE]
    /\ files' = Put(files, FinalPath(i), [temp EXCEPT !.closed = TRUE])
    /\ pc' = "move"
    /\ UNCHANGED <<aside, world, config, exists_up_to, i, locals, executed, terminated, history>>

\* f.close()
DS_close ==
    /\ driver = "Dataset" /\ pc = "close"
    /\ temp' = [temp EXCEPT !.closed = TRUE]
    /\ pc' = "move"
    /\ UNCHANGED <<aside, world, config, files, exists_up_to, i, locals, executed,
                   terminated, history>>

\* temp_path.replace(filepath) succeeds: one atomic rename; the for loop
\* goes on with the next index
DS_replace ==
    /\ driver = "Dataset" /\ pc = "move"
    /\ files' = Put(files, FinalPath(i), temp)
    /\ temp' = NoFile
    /\ i' = i + 1
    /\ pc' = "for"
    /\ UNCHANGED <<aside, world, config, exists_up_to, locals, executed, terminated, history>>

\* temp_path.replace(filepath) raises OSError (temp_path is on another
\* device): the except branch calls shutil.move
DS_replace_oserror ==
    /\ driver = "Dataset" /\ pc = "move"
    /\ pc' = "shutil_move"
    /\ UNCHANGED <<aside, world, config, files, temp, exists_up_to, i, locals, executed,
                   terminated, history>>

\* shutil.move: its rename fails as well, it copies the file: the
\* destination is created and filled
DS_copy_begin ==
    /\ driver = "Dataset" /\ pc = "shutil_move"
    /\ files' = Put(files, FinalPath(i), [temp EXCEPT !.whole = FALSE])
    /\ pc' = "copying"
    /\ UNCHANGED <<aside, world, config, temp, exists_up_to, i, locals, executed,
                   terminated, history>>

\* the copy is complete
DS_copy_end ==
    /\ driver = "Dataset" /\ pc = "copying"
    /\ files' = Put(files, FinalPath(i), temp)
    /\ pc' = "unlink"
    /\ UNCHANGED <<aside, world, config, temp, exists_up_to, i, locals, executed,
                   terminated, history>>

\* shutil.move removes the source; the for loop goes on
DS_unlink ==
    /\ driver = "Dataset" /\ pc = "unlink"
    /\ temp' = NoFile
    /\ i' = i + 1
    /\ pc' = "for"
    /\ UNCHANGED <<aside, world, config, files, exists_up_to, locals, executed, terminated, history>>

\* the for loop is over: back in run, the terminate command is sent
\* (dataset.py:172-197)
DS_terminate ==
    /\ driver = "Dataset" /\ pc = "for"
    /\ i >= num
    /\ terminated' = TRUE
    /\ pc' = "exited"
    /\ UNCHANGED <<aside, world, config, files, temp, exists_up_to, i, locals, executed, history>>

\* ------------------------------------------------ PhysicsDataset (driver)
\* PhysicsDataset.run up to the for loop: remove an incomplete temp file,
\* scan the directory, initialize the scene
PD_run ==
    /\ driver = "PhysicsDataset" /\ pc = "start"
    /\ temp' = NoFile
    /\ exists_up_to' = ExistsUpTo(files)
    /\ i' = ExistsUpTo(files) + 1
    /\ pc' = "for"
    /\ UNCHANGED <<aside, world, config, files, locals, executed, terminated, history>>

\* for i in range(exists_up_to + 1, num): a trial whose file exists is
\* passed over; otherwise PhysicsDataset.trial up to the while loop: the
\* writer opens the temp file and creates the frames group, frame 0 is
\* written
PD_trial(R) ==
    /\ driver = "PhysicsDataset" /\ pc = "for"
    /\ i < num
    /\ IF Exists(files, FinalPath(i))
       THEN /\ i' = i + 1
            /\ UNCHANGED <<world, temp, pc, locals, executed, killed_at>>
       ELSE /\ i' = i
            /\ executed' = Append(executed, i)
            /\ destroys' = <<>>
            /\ host' = InitCommands(scenario, host, i)
            /\ \E r \in Receivable(R, scenario) :
                 LET f0 == IF temp.exists THEN temp ELSE NewFile(i)
                     w  == RigidbodyWriterWriteFrame(f0, r, 0, TrialObjectIds)
                 IN IF f0.frames # <<>>
                    THEN temp' = f0 /\ Die("trial")
                    ELSE IF w.raised
                    THEN temp' = w.file /\ Die("trial")
                    ELSE /\ temp' = w.file
                         /\ object_ids' = TrialObjectIds
                         /\ frame' = 0
                         /\ done' = FALSE
                         /\ resp' = r
                         /\ sleeping' = w.sleeping
                         /\ complete' = FALSE
                         /\ cmd_frame' = 0
                         /\ pc' = "loop"
                         /\ killed_at' = killed_at
    /\ UNCHANGED <<aside, config, files, exists_up_to, terminated, start_fs, prev_exit>>

\* one iteration of "while not done and frame < 1000"
\* (physics_dataset.py:123-126)
PD_frame(R, H) ==
    /\ driver = "PhysicsDataset" /\ pc = "loop"
    /\ ~done /\ frame < FrameCap
    /\ frame < H
    /\ \E r \in Receivable(R, scenario) :
         LET n == frame + 1
             w == RigidbodyWriterWriteFrame(temp, r, n, object_ids)
         IN IF w.raised
            THEN temp' = w.file /\ Die("loop")
            ELSE /\ resp' = r
                 /\ cmd_frame' = n
                 /\ temp' = w.file
                 /\ frame' = n
                 /\ sleeping' = w.sleeping
                 /\ done' = w.sleeping
                 /\ UNCHANGED <<pc, object_ids, complete, killed_at>>
    /\ UNCHANGED <<aside, world, config, files, exists_up_to, i, executed, terminated,
                   start_fs, prev_exit>>

\* the loop has ended: self.communicate(writer.get_destroy_commands())
PD_cleanup ==
    /\ driver = "PhysicsDataset" /\ pc = "loop"
    /\ destroys' = DestroyCommands(object_ids)
    /\ host' = Destroyed(host, DestroyCommands(object_ids), i)
    /\ done \/ frame >= FrameCap
    /\ pc' = "close"
    /\ UNCHANGED <<aside, config, files, temp, exists_up_to, i, locals, executed,
                   terminated, history>>

\* writer.f.close()
PD_close ==
    /\ driver = "PhysicsDataset" /\ pc = "close"
    /\ temp' = [temp EXCEPT !.closed = TRUE]
    /\ pc' = "move"
    /\ UNCHANGED <<aside, world, config, files, exists_up_to, i, locals, executed,
                   terminated, history>>

\* temp_path.replace(filepath) succeeds
PD_replace ==
    /\ driver = "PhysicsDataset" /\ pc = "move"
    /\ files' = Put(files, FinalPath(i), temp)
    /\ temp' = NoFile
    /\ i' = i + 1
    /\ pc' = "for"
    /\ UNCHANGED <<aside, world, config, exists_up_to, locals, executed, terminated, history>>

\* temp_path.replace(filepath) raises OSError: nothing catches it
PD_replace_oserror ==
    /\ driver = "PhysicsDataset" /\ pc = "move"
    /\ Die("move")
    /\ UNCHANGED <<aside, world, config, files, temp, exists_up_to, i, executed, terminated,
                   start_fs, prev_exit>>

\* the for loop is over: the terminate command is sent
PD_terminate ==
    /\ driver = "PhysicsDataset" /\ pc = "for"
    /\ i >= num
    /\ terminated' = TRUE
    /\ pc' = "exited"
    /\ UNCHANGED <<aside, world, config, files, temp, exists_up_to, i, locals, executed, history>>

\* ------------------------------------------------------------ environment
\* the process is killed
Kill ==
    /\ pc \notin {"crashed", "exited"}
    /\ Die(pc)
    /\ UNCHANGED <<aside, world, config, files, temp, exists_up_to, i, executed, terminated,
                   start_fs, prev_exit>>

\* the same command is started again on the same directory
Restart ==
    /\ pc \in {"crashed", "exited"}
    /\ pc' = "start"
    /\ prev_exit' = IF pc = "exited" THEN "normal" ELSE "killed"
    /\ start_fs' = files
    /\ killed_at' = "none"
    /\ exists_up_to' = 0
    /\ i' = 0
    /\ executed' = <<>>
    /\ terminated' = FALSE
    /\ object_ids' = <<>>
    /\ frame' = 0
    /\ done' = FALSE
    /\ resp' = NoResp
    /\ sleeping' = FALSE
    /\ complete' = FALSE
    /\ cmd_frame' = 0
    /\ host' = {}
    /\ destroys' = <<>>
    /\ UNCHANGED <<aside, config, files, temp>>

\* --------------------------------------------------------- specifications
Next ==
    \/ DS_run \/ DS_trial_loop \/ DS_skip \/ DS_trial(Responses)
    \/ DS_frame(Responses, MaxFrame) \/ DS_cleanup \/ DS_close \/ DS_replace
    \/ DS_replace_oserror \/ DS_copy_begin \/ DS_copy_end \/ DS_unlink
    \/ DS_terminate
    \/ PD_run \/ PD_trial(Responses) \/ PD_frame(Responses, MaxFrame)
    \/ PD_cleanup \/ PD_close \/ PD_replace \/ PD_replace_oserror \/ PD_terminate
    \/ Kill \/ Restart

Spec == Init /\ [][Next]_vars

\* --------------------------------------------- the writers on every batch
\* Both drivers run Rigidbodies trials in an empty directory and receive
\* every response batch over Ids and Ys.
InitWriter ==
    /\ InitWith({"Dataset", "PhysicsDataset"}, {1, 2},
                {Scenario("Rigidbodies", "base", 0)}, {Empty})
    /\ num = IF driver = "Dataset" THEN 1 ELSE 2

NextWriter ==
    \/ DS_run \/ DS_trial_loop \/ DS_trial(FullResponses)
    \/ DS_frame(FullResponses, MaxFrame) \/ DS_cleanup \/ DS_close \/ DS_replace
    \/ DS_terminate
    \/ PD_run \/ PD_trial(FullResponses) \/ PD_frame(FullResponses, MaxFrame)
    \/ PD_cleanup \/ PD_close \/ PD_replace \/ PD_terminate

SpecWriter == InitWriter /\ [][NextWriter]_vars

\* ------------------------------------------------------------ long trials
\* Trials in an empty directory; some responses come without image.
\* Dataset runs one trial of a scenario that never reports "done", of one
\* whose is_done is "frame > LongMaxFrame - 1" and of Stability, and two
\* trials of Submerge. The objects of the first two never fall asleep; those
\* of Stability may be asleep in any frame.
Restless == Resp(TRUE, TRUE, TRUE, AllAt(0), AllAt(FALSE))

Asleep == Resp(TRUE, TRUE, TRUE, AllAt(0), AllAt(TRUE))

Plain == Resp(TRUE, TRUE, FALSE, AllAt(0), Empty)

LongResponses ==
    IF scenario.writer = "Transforms"
    THEN {Plain, [Plain EXCEPT !.imag = FALSE]}
    ELSE {Restless, [Restless EXCEPT !.imag = FALSE]}
             \cup (IF scenario.gated THEN {Asleep} ELSE {})

LongScenarios ==
    { Scenario("Rigidbodies", "base", 0),
      Scenario("Rigidbodies", "frame", LongMaxFrame - 1),
      Stability }

InitLong ==
    \/ InitWith({"Dataset"}, {1}, LongScenarios, {Empty})
    \/ InitWith({"Dataset"}, {2}, {Submerge}, {Empty})
    \/ InitWith({"Dataset"}, {1}, {Drop}, {Empty})
    \/ InitWith({"PhysicsDataset"}, {2}, LongScenarios, {Empty})

NextLong ==
    \/ DS_run \/ DS_trial_loop \/ DS_trial(LongResponses)
    \/ DS_frame(LongResponses, LongMaxFrame) \/ DS_cleanup \/ DS_close \/ DS_replace
    \/ DS_terminate
    \/ PD_run \/ PD_trial({Restless}) \/ PD_frame({Restless}, LongMaxFrame)
    \/ PD_cleanup \/ PD_close \/ PD_replace \/ PD_terminate

SpecLong == InitLong /\ [][NextLong]_vars

\* ------------------------------------------------------- joining a batch
\* the ways to list the elements of S one after the other
Orders(S) ==
    {q \in [1..Cardinality(S) -> S] :
        \A a, b \in 1..Cardinality(S) : a # b => q[a] # q[b]}

\* the entry lists of a record: one entry for each object of some set, in
\* any order
EntryLists(V) ==
    UNION {{[k \in 1..Cardinality(S) |-> [id |-> q[k], v |-> f[q[k]]]] :
               q \in Orders(S), f \in [S -> V]} : S \in SUBSET Ids}

Records(type, V) == {[type |-> type, entries |-> e] : e \in EntryLists(V)}

\* at most one record of a type in a batch
RecordSets ==
    {T \cup R \cup I :
        T \in {{}} \cup {{t} : t \in Records("tran", Ys)},
        R \in {{}} \cup {{r} : r \in Records("rigi", {0, 1})},
        I \in {{}, {[type |-> "imag", entries |-> <<>>]}}}

Batches == UNION {Orders(RS) : RS \in RecordSets}

\* the object-ID lists of a trial
IdLists == Orders(Ids)

InitJoin ==
    /\ IdleRun /\ MoreIdle /\ BuildIdle /\ PlaceIdle /\ DropIdle
    /\ batch \in Batches
    /\ \E ids \in IdLists : written = Unwritten(ids)

\* _write_frame(resp = batch)
Join_write_frame ==
    /\ ~written.written
    /\ written' = FrameOf(batch, written.ids)
    /\ UNCHANGED <<run_vars, more, batch, builder, place, dropping>>

NextJoin == Join_write_frame

SpecJoin == InitJoin /\ [][NextJoin]_vars

\* ------------------------------------------------------- building a trial
\* Controller.get_unique_id() draws the id of a new object
IdSpace == 1..MaxId

BuildScenarios == {"Dominoes", "MultiDominoes", "Tower"}

InitBuild ==
    /\ IdleRun /\ MoreIdle /\ JoinIdle /\ PlaceIdle /\ DropIdle
    /\ lists \in {NoLists} \cup
                 { [add_physics_object(random_primitive(NoLists, 1), 1)
                       EXCEPT !.target_color = c] : c \in Colors }
    /\ static_group = NoStatic
    /\ \E sc \in BuildScenarios, rt \in BOOLEAN, uc \in BOOLEAN, rgb \in Colors :
         build = [pc |-> "new", scenario |-> sc, remove_target |-> rt,
                  use_cap |-> uc, middle |-> 0, rgb |-> rgb]

\* Dataset.trial: self.clear_static_data()
B_clear_static_data ==
    /\ build.pc = "new"
    /\ lists' = clear_static_data(lists)
    /\ build' = [build EXCEPT !.pc = "target"]
    /\ UNCHANGED <<run_vars, more, join, place, dropping, static_group>>

\* Dominoes._place_target_object
B_place_target_object ==
    /\ build.pc = "target"
    /\ \E o_id \in IdSpace :
         LET added == [add_physics_object(random_primitive(lists, o_id), o_id)
                          EXCEPT !.target_color = ColorOf(lists.target_color, build.rgb)]
         IN lists' = IF build.remove_target THEN DropLastId(added) ELSE added
    /\ build' = [build EXCEPT !.pc = "probe"]
    /\ UNCHANGED <<run_vars, more, join, place, dropping, static_group>>

\* Dominoes._place_and_push_probe_object
B_place_and_push_probe_object ==
    /\ build.pc = "probe"
    /\ \E o_id \in IdSpace :
         lists' = add_physics_object(random_primitive(lists, o_id), o_id)
    /\ build' = [build EXCEPT !.pc = "middle"]
    /\ UNCHANGED <<run_vars, more, join, place, dropping, static_group>>

\* one round of the loop of MultiDominoes._place_middle_objects or of
\* Tower._build_stack
B_place_middle_object ==
    /\ build.pc = "middle"
    /\ build.scenario \in {"MultiDominoes", "Tower"}
    /\ build.middle < MaxMiddle
    /\ \E o_id \in IdSpace :
         lists' = add_physics_object(random_primitive(lists, o_id), o_id)
    /\ build' = [build EXCEPT !.middle = @ + 1]
    /\ UNCHANGED <<run_vars, more, join, place, dropping, static_group>>

\* Tower._add_cap: random_primitive has no parameter add_data, the call
\* raises TypeError before anything is appended
B_add_cap ==
    /\ build.pc = "middle"
    /\ build.scenario = "Tower"
    /\ build' = [build EXCEPT !.pc = "raised"]
    /\ UNCHANGED <<run_vars, more, join, place, dropping, lists, static_group>>

\* Dataset.trial: self._write_static_data(static_group)
B_write_static_data ==
    /\ build.pc = "middle"
    /\ build.scenario # "Tower"
    /\ static_group' = write_static_data(lists)
    /\ build' = [build EXCEPT !.pc = "written"]
    /\ UNCHANGED <<run_vars, more, join, place, dropping, lists>>

NextBuild ==
    \/ B_clear_static_data \/ B_place_target_object \/ B_place_and_push_probe_object
    \/ B_place_middle_object \/ B_add_cap \/ B_write_static_data

SpecBuild == InitBuild /\ [][NextBuild]_vars

\* ------------------------------------------------------ placing an object
\* TDWUtils.get_random_point_in_circle draws one of these
Points == 0..MaxPoint

\* TDWUtils.get_distance
Distance(a, b) == IF a < b THEN b - a ELSE a - b

\* the objects placed so far: up to two, each a position and a radius; an
\* object of radius MaxPoint leaves no point free
ObjectPositions ==
    UNION {[1..n -> [position : Points, radius : 0..MaxPoint]] : n \in 0..2}

\* faulty variant: one round more than max_tries
Retry_once_more(p) == ~p.ok /\ p.count <= p.max_tries

\* while not ok and count < max_tries
Retry(p) == ~p.ok /\ p.count < p.max_tries

\* "for o in object_positions": an object that is too close clears ok and
\* gives o_pos a new random point, fresh[k] at object k
RECURSIVE ForObjects(_, _, _, _)
ForObjects(objs, fresh, k, acc) ==
    IF k > Len(objs) THEN acc
    ELSE ForObjects(objs, fresh, k + 1,
                    IF Distance(objs[k].position, acc.o_pos) <= objs[k].radius
                    THEN [ok |-> FALSE, o_pos |-> fresh[k]]
                    ELSE acc)

\* while count < 1000 and np.linalg.norm(np.abs(p1 - p0)) < 1.5: the two
\* points are too near as long as they are less than FarEnough apart
FarEnough == 2

PushRetry(p) == p.count < PushTries /\ Distance(p.p1, p.o_pos) < FarEnough

InitPlace ==
    /\ IdleRun /\ MoreIdle /\ JoinIdle /\ BuildIdle /\ DropIdle
    /\ \E objs \in ObjectPositions, mt \in 0..MaxTries,
          rt \in {"get_object_position", "push_into_other"} :
         /\ rt = "push_into_other" => objs = <<>> /\ mt = 0
         /\ place = [pc |-> "call", routine |-> rt, object_positions |-> objs,
                     max_tries |-> mt, o_pos |-> 0, p1 |-> 0, ok |-> FALSE, count |-> 0]

\* ToysDataset._get_object_position up to the loop
P_begin ==
    /\ place.pc = "call" /\ place.routine = "get_object_position"
    /\ \E pos \in Points :
         place' = [place EXCEPT !.pc = "while", !.o_pos = pos, !.ok = FALSE, !.count = 0]
    /\ UNCHANGED <<run_vars, more, join, builder, dropping>>

\* one round of its while loop
P_round ==
    /\ place.pc = "while" /\ place.routine = "get_object_position"
    /\ Retry(place)
    /\ \E fresh \in [1..Len(place.object_positions) -> Points] :
         LET for == ForObjects(place.object_positions, fresh, 1,
                               [ok |-> TRUE, o_pos |-> place.o_pos])
         IN place' = [place EXCEPT !.count = @ + 1, !.ok = for.ok, !.o_pos = for.o_pos]
    /\ UNCHANGED <<run_vars, more, join, builder, dropping>>

\* return o_pos
P_return ==
    /\ place.pc = "while" /\ place.routine = "get_object_position"
    /\ ~Retry(place)
    /\ place' = [place EXCEPT !.pc = "returned"]
    /\ UNCHANGED <<run_vars, more, join, builder, dropping>>

\* Squishing.push_into_other up to the loop
P_push_begin ==
    /\ place.pc = "call" /\ place.routine = "push_into_other"
    /\ place' = [place EXCEPT !.pc = "while", !.o_pos = 0, !.p1 = 0, !.count = 0]
    /\ UNCHANGED <<run_vars, more, join, builder, dropping>>

\* one round of its while loop
P_push_round ==
    /\ place.pc = "while" /\ place.routine = "push_into_other"
    /\ PushRetry(place)
    /\ \E p0 \in Points, p1 \in Points :
         place' = [place EXCEPT !.o_pos = p0, !.p1 = p1, !.count = @ + 1]
    /\ UNCHANGED <<run_vars, more, join, builder, dropping>>

\* the loop is left with the two points
P_push_return ==
    /\ place.pc = "while" /\ place.routine = "push_into_other"
    /\ ~PushRetry(place)
    /\ place' = [place EXCEPT !.pc = "returned"]
    /\ UNCHANGED <<run_vars, more, join, builder, dropping>>

NextPlace ==
    \/ P_begin \/ P_round \/ P_return
    \/ P_push_begin \/ P_push_round \/ P_push_return

\* a routine that was called keeps running
SpecPlace == InitPlace /\ [][NextPlace]_vars /\ WF_vars(NextPlace)

\* --------------------------------------------------------- the Drop trials
\* The generator of the random module: a state, a step that every draw
\* takes, and the number in [0, 1) a state stands for, state / RngMod.
RngMod == 8

RngStates == 0..(RngMod - 1)

\* random.seed(seed): the state is a function of the seed alone
Seed(seed) == seed % RngMod

\* the step of one draw
Step(s) == (5 * s + 3) % RngMod

\* the states of the generator at the next n draws, from state s
RECURSIVE Draws(_, _, _)
Draws(s, n, acc) ==
    IF n = 0 THEN acc ELSE Draws(Step(s), n - 1, Append(acc, Step(s)))

\* faulty variant: a + b * random()
Uniform_wide(lo, hi, s) == lo + (hi * s) \div RngMod

\* random.uniform(lo, hi) = lo + (hi - lo) * random(), drawn in state s
Uniform(lo, hi, s) == lo + ((hi - lo) * s) \div RngMod

\* faulty variant: the generator is never seeded
SeedIfFixed_never(cfg, s) == s

\* Dataset.__init__: if not bool(self.randomize): random.seed(self.seed)
SeedIfFixed(cfg, s) == IF ~cfg.randomize THEN Seed(cfg.seed) ELSE s

\* the sampling ranges of drop.py:340-343 and 397-400, in tenths
MassRange == <<20, 70>>
FrictionRange == <<0, 9>>
BouncinessRange == <<0, 10>>

\* --ymin and --ymax, and --jitter, in hundredths
HeightRanges == {<<75, 125>>, <<50, 150>>}
Jitters == {0, 2}

\* the ids get_unique_id gives the target and the dropped object
DropIds == {<<1, 2>>, <<2, 1>>}

\* Drop.get_trial_initialization_commands and _write_static_data, the
\* generator being in state s on entry. The draws, in order: for the target
\* random.choice, the scale, three color components, the rotation, mass,
\* dynamic friction, static friction, bounciness (1-10); for the dropped
\* object random.choice, the scale, three color components (11-15), the
\* height (16), x and z of the drop position (17, 18), the rotation (19),
\* mass, dynamic friction, static friction, bounciness (20-23); three draws
\* of get_random_avatar_position (24-26).
DropTrial(cfg, s, ids) ==
    LET draws == Draws(s, 26, <<>>)
        d(n) == draws[n]
        l == add_physics_object(random_primitive(
                 add_physics_object(random_primitive(NoLists, ids[1]), ids[1]),
                 ids[2]), ids[2])
        height == Uniform(cfg.height_range[1], cfg.height_range[2], d(16))
    IN [rng |-> d(26),
        static |->
          [object_ids |-> write_static_data(l).object_ids,
           mass |-> <<Uniform(MassRange[1], MassRange[2], d(7)),
                      Uniform(MassRange[1], MassRange[2], d(20))>>,
           dynamic_friction |-> <<Uniform(FrictionRange[1], FrictionRange[2], d(8)),
                                  Uniform(FrictionRange[1], FrictionRange[2], d(21))>>,
           static_friction |-> <<Uniform(FrictionRange[1], FrictionRange[2], d(9)),
                                 Uniform(FrictionRange[1], FrictionRange[2], d(22))>>,
           bounciness |-> <<Uniform(BouncinessRange[1], BouncinessRange[2], d(10)),
                            Uniform(BouncinessRange[1], BouncinessRange[2], d(23))>>,
           drop_position |-> [x |-> Uniform(-cfg.jitter, cfg.jitter, d(17)),
                              y |-> height,
                              z |-> Uniform(-cfg.jitter, cfg.jitter, d(18))],
           height |-> height]]

Runs == {1, 2}

\* two processes with the same arguments, each on an empty directory; the
\* generator of each is in a state of its own when the process starts
InitDrop ==
    /\ IdleRun /\ MoreIdle /\ JoinIdle /\ BuildIdle /\ PlaceIdle
    /\ drop_cfg \in [randomize : BOOLEAN, seed : 0..MaxSeed,
                     height_range : HeightRanges, jitter : Jitters]
    /\ drops \in [Runs -> [pc : {"new"}, rng : RngStates, i : {0}, trials : {<<>>}]]

\* Drop(randomize, seed, ...)
Drop_init(r) ==
    /\ drops[r].pc = "new"
    /\ drops' = [drops EXCEPT ![r].pc = "run",
                              ![r].rng = SeedIfFixed(drop_cfg, @)]
    /\ UNCHANGED <<run_vars, more, join, builder, place, drop_cfg>>

\* trial i of the run
Drop_trial(r) ==
    /\ drops[r].pc = "run"
    /\ drops[r].i < MaxDrops
    /\ \E ids \in DropIds :
         LET t == DropTrial(drop_cfg, drops[r].rng, ids)
         IN drops' = [drops EXCEPT ![r].rng = t.rng,
                                   ![r].i = @ + 1,
                                   ![r].trials = Append(@, t.static)]
    /\ UNCHANGED <<run_vars, more, join, builder, place, drop_cfg>>

NextDrop == \E r \in Runs : Drop_init(r) \/ Drop_trial(r)

SpecDrop == InitDrop /\ [][NextDrop]_vars

\* ------------------------------------------------------------------ SpecArgs
\* One script, drop.py or dominoes.py, started with --target and --tscale:
\* get_args, the constructor, run and the first trial.

MaxNames == 2

Targets == UNION { [1..n -> Names] : n \in 1..MaxNames }

InitArgs ==
    /\ IdleRun /\ JoinIdle /\ BuildIdle /\ PlaceIdle /\ DropIdle /\ OcclIdle /\ ToysIdle
    /\ \E sc \in {"drop", "dominoes"}, tg \in Targets, ts \in RangeArgs :
         argv = [pc |-> "main", script |-> sc, target |-> tg, tscale |-> ts,
                 scale |-> NoValue, raised |-> FALSE, sent |-> 0, trials |-> 0]

\* args = get_args(...)
Args_get_args ==
    /\ argv.pc = "main"
    /\ LET a == get_args(argv.script, argv.target, argv.tscale)
       IN argv' = [argv EXCEPT !.pc = IF a.raised THEN "exit" ELSE "parsed",
                               !.raised = a.raised,
                               !.scale = a.value]
    /\ UNCHANGED <<run_vars, join, builder, place, dropping, beside_argv>>

\* Drop(...) or MultiDominoes(...): the arguments are stored
Args_construct ==
    /\ argv.pc = "parsed"
    /\ argv' = [argv EXCEPT !.pc = "constructed"]
    /\ UNCHANGED <<run_vars, join, builder, place, dropping, beside_argv>>

\* run: the scene is set up in the Simulation Host before the trial loop
Args_run ==
    /\ argv.pc = "constructed"
    /\ argv' = [argv EXCEPT !.pc = "running", !.sent = @ + 1]
    /\ UNCHANGED <<run_vars, join, builder, place, dropping, beside_argv>>

\* trial: the trial's commands are made with random_primitive(scale=...) and
\* sent if making them did not raise
Args_trial ==
    /\ argv.pc = "running"
    /\ LET s == get_random_xyz_transform(argv.scale)
       IN argv' = [argv EXCEPT !.pc = IF s.raised THEN "exit" ELSE "trial",
                               !.raised = s.raised,
                               !.trials = @ + 1,
                               !.sent = IF s.raised THEN @ ELSE @ + 1]
    /\ UNCHANGED <<run_vars, join, builder, place, dropping, beside_argv>>

NextArgs == Args_get_args \/ Args_construct \/ Args_run \/ Args_trial

SpecArgs == InitArgs /\ [][NextArgs]_vars

\* ------------------------------------------------------------- SpecOcclusion
\* One trial of Occlusion: get_trial_initialization_commands fills the list
\* per_frame_commands with one batch per camera position, numbered 1..n here,
\* and Dataset.trial runs its loop on it.

MaxPositions == 5

\* for theta in np.arange(0, 360, d_theta): d_theta is drawn from [0.5, 3],
\* there are at least 120 positions; the model keeps at least two
PositionCounts == 2..MaxPositions

\* the record types of a response of a TransformsDataset
OccResponses == {[imag |-> im, tran |-> tn] : im \in BOOLEAN, tn \in BOOLEAN}

RECURSIVE Positions(_, _)
Positions(k, n) == IF k > n THEN <<>> ELSE <<k>> \o Positions(k + 1, n)

InitOcclusion ==
    /\ IdleRun /\ JoinIdle /\ BuildIdle /\ PlaceIdle /\ DropIdle /\ ArgvIdle /\ ToysIdle
    /\ \E n \in PositionCounts :
         occl = [pc |-> "trial", n |-> n, per_frame_commands |-> <<>>, frame |-> 0,
                 done |-> FALSE, recorded |-> <<>>, resp |-> [imag |-> FALSE, tran |-> FALSE]]

\* Dataset.trial up to the loop: the initialization commands hold the batch
\* of the first position, frame 0 is written from the response
Occ_trial ==
    /\ occl.pc = "trial"
    /\ \E r \in OccResponses :
         occl' = [occl EXCEPT !.pc = "loop",
                              !.per_frame_commands = Tail(Positions(1, occl.n)),
                              !.frame = 0,
                              !.done = FALSE,
                              !.recorded = <<1>>,
                              !.resp = r]
    /\ UNCHANGED <<run_vars, join, builder, place, dropping, beside_occl>>

\* one iteration of "while not done": get_per_frame_commands pops the first
\* batch, pop(0) of an empty list raises IndexError; TransformsDataset's
\* _write_frame never reports sleeping, done is what is_done returns
Occ_frame ==
    /\ occl.pc = "loop" /\ ~occl.done
    /\ IF occl.per_frame_commands = <<>>
       THEN occl' = [occl EXCEPT !.pc = "raised", !.frame = @ + 1]
       ELSE \E r \in OccResponses :
              LET sent == Head(occl.per_frame_commands)
                  rest == Tail(occl.per_frame_commands)
              IN IF Malformed(r)
                 THEN occl' = [occl EXCEPT !.per_frame_commands = rest, !.resp = r]
                 ELSE occl' = [occl EXCEPT !.per_frame_commands = rest,
                                           !.resp = r,
                                           !.frame = @ + 1,
                                           !.recorded = Append(@, sent),
                                           !.done = (Len(rest) = 0)]
    /\ UNCHANGED <<run_vars, join, builder, place, dropping, beside_occl>>

\* the loop has ended: the objects are destroyed, the file is closed
Occ_cleanup ==
    /\ occl.pc = "loop" /\ occl.done
    /\ occl' = [occl EXCEPT !.pc = "completed"]
    /\ UNCHANGED <<run_vars, join, builder, place, dropping, beside_occl>>

NextOcclusion == Occ_trial \/ Occ_frame \/ Occ_cleanup

SpecOcclusion == InitOcclusion /\ [][NextOcclusion]_vars

\* ------------------------------------------------------------- SpecResume
\* Two processes with the same arguments: run 1 starts on an empty
\* directory, run 2 on a directory that holds the trials before index e, so
\* that its for loop passes over them and its first trial is trial e
\* (dataset.py:216-240).
InitResume ==
    /\ IdleRun /\ MoreIdle /\ JoinIdle /\ BuildIdle /\ PlaceIdle
    /\ drop_cfg \in [randomize : BOOLEAN, seed : 0..MaxSeed,
                     height_range : HeightRanges, jitter : Jitters]
    /\ \E e \in 1..(MaxDrops - 1) :
         drops \in { d \in [Runs -> [pc : {"new"}, rng : RngStates, i : {0, e},
                                     trials : {<<>>}]] :
                       d[1].i = 0 /\ d[2].i = e }

SpecResume == InitResume /\ [][NextDrop]_vars

\* ----------------------------------------------------------------- SpecToys
\* ToysDataset.get_trial_initialization_commands: the loop that adds the
\* objects of a trial.

\* the radius recorded with a position: the scale of the object
Radii == {0, 1}

\* one round of the while loop of _get_object_position from o_pos: what the
\* for loop can leave
Round(objs, o_pos) ==
    { ForObjects(objs, fresh, 1, [ok |-> TRUE, o_pos |-> o_pos]) :
        fresh \in [1..Len(objs) -> Points] }

\* the while loop from round count on, for every [ok, o_pos] of S
RECURSIVE While(_, _, _, _)
While(objs, S, count, max_tries) ==
    LET again == {r \in S : Retry([ok |-> r.ok, count |-> count, max_tries |-> max_tries])}
    IN IF again = {} THEN S
       ELSE While(objs, (S \ again) \cup UNION {Round(objs, r.o_pos) : r \in again},
                  count + 1, max_tries)

\* what a call of _get_object_position(object_positions, max_tries) can
\* return: o_pos, and ok, which is FALSE when the rounds were used up
get_object_position(objs, max_tries) ==
    While(objs, {[ok |-> FALSE, o_pos |-> p] : p \in Points}, 0, max_tries)

InitToys ==
    /\ IdleRun /\ JoinIdle /\ BuildIdle /\ PlaceIdle /\ DropIdle /\ ArgvIdle /\ OcclIdle
    /\ toys = [pc |-> "trial", num_objects |-> 0, object_positions |-> <<>>,
               commands |-> <<>>, exhausted |-> FALSE]

\* num_objects = random.choice([2, 3]); object_positions = []
Toys_begin ==
    /\ toys.pc = "trial"
    /\ \E n \in {2, 3} :
         toys' = [toys EXCEPT !.pc = "for", !.num_objects = n,
                              !.object_positions = <<>>, !.commands = <<>>,
                              !.exhausted = FALSE]
    /\ UNCHANGED <<run_vars, join, builder, place, dropping, beside_toys>>

\* one round of "for i in range(num_objects)": a position is drawn and
\* recorded with the radius, and the add command gets the result of a
\* second call of _get_object_position, made with the list that holds the
\* recorded position
Toys_add_object ==
    /\ toys.pc = "for"
    /\ Len(toys.commands) < toys.num_objects
    /\ \E scale \in Radii :
       \E first \in get_object_position(toys.object_positions, MaxTries) :
         LET recorded == Append(toys.object_positions,
                                [position |-> first.o_pos, radius |-> scale])
         IN \E second \in get_object_position(recorded, MaxTries) :
              toys' = [toys EXCEPT !.object_positions = recorded,
                                   !.commands = Append(@, second.o_pos),
                                   !.exhausted = @ \/ ~first.ok \/ ~second.ok]
    /\ UNCHANGED <<run_vars, join, builder, place, dropping, beside_toys>>

\* the loop is over: the other commands are added, return commands
Toys_return ==
    /\ toys.pc = "for"
    /\ Len(toys.commands) = toys.num_objects
    /\ toys' = [toys EXCEPT !.pc = "returned"]
    /\ UNCHANGED <<run_vars, join, builder, place, dropping, beside_toys>>

NextToys == Toys_begin \/ Toys_add_object \/ Toys_return

SpecToys == InitToys /\ [][NextToys]_vars

\* ------------------------------------------------------------------ claims
\* the trials a directory holds a file for
Present(fs) == {t \in 0..(MaxNum + 1) : FinalPath(t) \in DOMAIN fs}

\* the steps of a trial before its file is moved
BeforeMove == {"trial", "loop", "close", "move"}

\* C1: a process killed during a trial, before the move of the temp file
\* has started, leaves no file at the final path of that trial, and the
\* trial files are those found at start plus those of the trials completed
\* before: the interrupted trial leaves nothing but the temp file.
C1_KilledTrialLeavesNoFile ==
    (pc = "crashed" /\ killed_at \in BeforeMove)
        => /\ FinalPath(i) \notin DOMAIN files
           /\ executed # <<>> /\ executed[Len(executed)] = i
           /\ DOMAIN files = DOMAIN start_fs \cup
                  {FinalPath(executed[k]) : k \in 1..(Len(executed) - 1)}

C1_Witness ==
    /\ pc = "crashed" /\ killed_at = "loop"
    /\ temp.exists /\ ~temp.closed /\ temp.frames # <<>>
    /\ Len(executed) = 2

\* C2: every file at a final path is the complete, closed archive of the
\* trial of that path, at every instant.
C2_FinalFilesAreWhole ==
    \A n \in DOMAIN files :
        files[n].whole /\ files[n].closed /\ files[n].trial = ParseInt(n)

\* C3: a run that follows a run that returned normally starts no trial and
\* leaves the trial files as they were.
C3_SecondRunDoesNothing ==
    prev_exit = "normal" => executed = <<>> /\ files = start_fs

C3_Witness ==
    /\ prev_exit = "normal" /\ pc = "exited"
    /\ num = MaxNum /\ Present(files) = 0..(MaxNum - 1)

\* the trials C4 expects a run to execute
RECURSIVE Range(_, _)
Range(a, b) == IF a >= b THEN <<>> ELSE <<a>> \o Range(a + 1, b)

ExpectedTrials ==
    IF Present(start_fs) = {} THEN Range(0, num)
    ELSE Range((CHOOSE t \in Present(start_fs) : \A u \in Present(start_fs) : u <= t) + 1, num)

\* C4: a run executes the trials that follow the highest trial file found
\* at start, up to num-1, in increasing order, from 0 when there is none;
\* it never executes a trial whose file exists.
C4_ResumesAfterHighest ==
    /\ \A k \in 1..Len(executed) :
         k <= Len(ExpectedTrials) /\ executed[k] = ExpectedTrials[k]
    /\ pc = "exited" => executed = ExpectedTrials
    /\ \A k \in 1..Len(executed) : FinalPath(executed[k]) \notin DOMAIN start_fs

\* C5, as claimed, read for Dataset.run: when the terminate command has been
\* sent, every trial 0 .. num-1 has its file.
C5_AllTrialsOnDisk ==
    (driver = "Dataset" /\ terminated) => \A t \in 0..(num - 1) : FinalPath(t) \in DOMAIN files

\* C5, amended: when the terminate command has been sent, every trial above
\* the highest index found at start (0 when none was found) has its file up
\* to num-1, in Dataset the trial of that index has its file too, and the
\* files found at start are still there; trials below that index are not
\* filled in.
C5_TrialsAboveHighestOnDisk ==
    terminated =>
        LET top == IF Present(start_fs) = {} THEN 0
                   ELSE CHOOSE t \in Present(start_fs) : \A u \in Present(start_fs) : u <= t
        IN /\ \A t \in (top + 1)..(num - 1) : FinalPath(t) \in DOMAIN files
           /\ (driver = "Dataset" /\ top < num) => FinalPath(top) \in DOMAIN files
           /\ \A n \in DOMAIN start_fs : n \in DOMAIN files /\ files[n] = start_fs[n]

C5_Witness ==
    /\ terminated /\ driver = "Dataset" /\ num = MaxNum + 1
    /\ Present(start_fs) = {MaxNum - 1}
    /\ Present(files) = {MaxNum - 1, MaxNum}
    /\ executed = <<MaxNum>>

\* C6, as claimed: when neither is_done nor the sleep heuristic ever fires,
\* the frame loop is left once the frame counter has reached FrameCap, so
\* the loop is never found at a frame beyond it.
C6_LoopStopsAtCap ==
    (pc = "loop" /\ scenario.done = "base") => frame <= FrameCap

\* C7: in Dataset.trial, an iteration whose response lacks the image or the
\* transform record leaves the temp archive (frame groups and labels) and
\* the frame counter as they were, and the iteration after it requests
\* commands for the same frame number and, given a complete response,
\* records that frame number.
C7_RetryKeepsFrame ==
    [][ /\ ( /\ driver = "Dataset" /\ pc = "loop" /\ pc' = "loop"
             /\ cmd_frame' = frame + 1
             /\ (~resp'.imag \/ ~resp'.tran) )
           => (temp' = temp /\ frame' = frame)
        /\ ( /\ driver = "Dataset" /\ pc = "loop" /\ pc' = "loop"
             /\ cmd_frame = frame + 1 )
           => /\ cmd_frame' = cmd_frame
              /\ (resp'.imag /\ resp'.tran)
                   => /\ frame' = cmd_frame
                      /\ temp'.frames = AddRun(temp.frames, cmd_frame)
                      /\ temp'.labels = AddRun(temp.labels, cmd_frame)
      ]_vars

C7_Witness ==
    /\ driver = "Dataset" /\ pc = "loop"
    /\ frame >= 1 /\ cmd_frame = frame + 1
    /\ ~resp.tran /\ resp.imag
    /\ temp.frames = <<[lo |-> 0, hi |-> frame]>>

\* C8, as claimed: the frame groups of a complete archive are those of
\* 0 .. n-1 for some n >= 1, and the names the groups are created under
\* (zero_padding) ascend, as strings, with the frame numbers.
C8_FrameNamesContiguousSorted ==
    \A name \in DOMAIN files :
        LET f == files[name] IN
        f.whole =>
            /\ Len(f.frames) = 1
            /\ f.frames[1].lo = 0
            /\ \A k \in 1..f.frames[1].hi :
                   LexLess(zero_padding(k - 1, PadWidth), zero_padding(k, PadWidth))

\* the sleep heuristic of RigidbodiesDataset._write_frame, stated of the
\* response alone; a TransformsDataset scenario has none
AllAboveAbyssSleep(sc, r) ==
    /\ sc.writer = "Rigidbodies"
    /\ \A id \in DOMAIN r.rb : (id \in DOMAIN r.tr /\ r.tr[id] >= -1) => r.rb[id]

\* a step of Dataset.trial that follows the recording of a frame >= 1
AfterRecordedFrame ==
    /\ driver = "Dataset" /\ pc = "loop"
    /\ frame >= 1 /\ cmd_frame = frame
    /\ pc' # "crashed" /\ vars' # vars

\* C9, as claimed: after a recorded frame >= 1 the loop is left if and only
\* if is_done holds of that frame or the sleep heuristic holds of that
\* frame's response.
C9_ExitIffDoneOrHeuristic ==
    [][ AfterRecordedFrame
        => ( (pc' = "close")
               <=> (AllAboveAbyssSleep(scenario, resp) \/ is_done(scenario, resp, frame)) )
      ]_vars

\* C9, amended: after a recorded frame >= 1 the loop is left if and only if
\* is_done holds of that frame or the scenario's _write_frame returned
\* "done" for it: the sleep heuristic of the frame's response, which a
\* scenario with the Stability override counts at frames below 300 only.
C9_ExitIffDoneOrWriterDone ==
    [][ AfterRecordedFrame
        => ( (pc' = "close")
               <=> \/ is_done(scenario, resp, frame)
                   \/ /\ AllAboveAbyssSleep(scenario, resp)
                      /\ (scenario.gated => frame < 300) )
      ]_vars

C9_Witness ==
    /\ driver = "Dataset" /\ pc = "loop" /\ scenario.gated
    /\ frame = SleepGate /\ cmd_frame = frame
    /\ temp.frames = <<[lo |-> 0, hi |-> SleepGate]>>
    /\ resp.rb = AllAt(TRUE) /\ resp.tr = AllAt(0) /\ ~done

\* C10: when the writer returns for a response, its "sleeping" result is
\* TRUE exactly when every entry of the Rigidbodies record whose object is
\* at y >= -1 reports sleeping; changing the sleeping flag of an entry whose
\* object is below y = -1 does not change the result.
C10_SleepingIffAllAboveAbyssSleep ==
    (pc = "loop" /\ cmd_frame = frame) =>
        /\ sleeping <=>
              \A id \in DOMAIN resp.rb :
                  (id \in DOMAIN resp.tr /\ resp.tr[id] >= -1) => resp.rb[id]
        /\ \A id \in DOMAIN resp.rb :
              (id \in DOMAIN resp.tr /\ resp.tr[id] < -1) =>
                  LET flipped == [resp EXCEPT !.rb[id] = ~@]
                      again == IF driver = "Dataset"
                               THEN RigidbodiesWriteFrame(NewFile(i), flipped, frame, object_ids)
                               ELSE RigidbodyWriterWriteFrame(NewFile(i), flipped, frame, object_ids)
                  IN ~again.raised /\ again.sleeping = sleeping

C10_Witness ==
    /\ pc = "loop" /\ cmd_frame = frame /\ frame >= 1
    /\ sleeping
    /\ resp.rigi /\ DOMAIN resp.rb = Ids /\ DOMAIN resp.tr = Ids
    /\ resp.tr[1] = -2 /\ ~resp.rb[1]
    /\ resp.tr[2] = -1 /\ resp.rb[2]

\* the archives on disk: the temp file and the trial files
Archives == {temp} \cup {files[n] : n \in DOMAIN files}

AfterLoop == {"close", "move", "for", "exited"}

\* the ids of the objects the trial initialization of a scenario creates
CreatedIds(sc) ==
    {TrialObjectIds[k] : k \in 1..Len(TrialObjectIds)}
        \cup (IF sc.fluid THEN {FluidId} ELSE {})

C13_RowsMatchStaticIds ==
    /\ \A a \in Archives :
          (a.exists /\ a.static /\ a.frames # <<>>) =>
              /\ Len(a.last.positions) = Len(a.static_ids)
              /\ a.last.velocities # <<>> =>
                    Len(a.last.velocities) = Len(a.static_ids)
    /\ (driver = "Dataset" /\ pc = "loop") => temp.static_ids = object_ids

\* a frame after frame 0 of a trial was written from a response whose
\* Transforms record has an entry for one object only
C13_Witness ==
    /\ driver = "Dataset" /\ pc = "loop" /\ frame >= 1 /\ cmd_frame = frame
    /\ scenario.writer = "Rigidbodies"
    /\ Cardinality(DOMAIN resp.tr) = 1
    /\ Len(temp.static_ids) = 2
    /\ Len(temp.last.positions) = 2 /\ Len(temp.last.velocities) = 2

\* C15: a frame the writer completed from a response with a Transforms
\* (Rigidbodies) record has every row of positions (velocities) assigned
\* from the record: a frame for which the record lacks an id of the
\* object-ID list is never completed.
C15_AbsentIdSurfaces ==
    (pc = "loop" /\ cmd_frame = frame /\ InRuns(temp.frames, frame)) =>
        \A k \in 1..Len(object_ids) :
            /\ resp.tran => (k \in DOMAIN temp.last.positions /\ temp.last.positions[k])
            /\ (resp.rigi /\ temp.last.velocities # <<>>) => temp.last.velocities[k]

\* the same record with its entries in another order
Reordered(rec) ==
    {[type |-> rec.type, entries |-> [k \in DOMAIN rec.entries |-> rec.entries[p[k]]]] :
        p \in Orders(DOMAIN rec.entries)}

\* the same batch with its records, and the entries of each, in another order
Permuted(records) ==
    {[k \in DOMAIN records |-> f[p[k]]] :
        p \in Orders(DOMAIN records),
        f \in {g \in [DOMAIN records -> UNION {Reordered(records[k]) : k \in DOMAIN records}] :
                 \A k \in DOMAIN records : g[k] \in Reordered(records[k])}}

\* C16: in a written frame, row k of positions (velocities) holds the value
\* the Transforms (Rigidbodies) record reports for the id at position k of
\* the object-ID list, and the frame is the one the writer makes of every
\* reordering of the batch's records and of their entries.
C16_RowsJoinedById ==
    written.written =>
        /\ \A k \in 1..Len(written.ids), n \in DOMAIN batch :
             \A e \in DOMAIN batch[n].entries :
                 batch[n].entries[e].id = written.ids[k] =>
                     /\ batch[n].type = "tran" =>
                          written.positions[k] = <<batch[n].entries[e].v>>
                     /\ (batch[n].type = "rigi" /\ ~written.raised) =>
                          written.velocities[k] = <<batch[n].entries[e].v>>
        /\ \A q \in Permuted(batch) : FrameOf(q, written.ids) = written

\* a frame written from a batch whose Rigidbodies record comes before the
\* Transforms record and lists the objects in the reverse order of the list
C16_Witness ==
    /\ written.written /\ ~written.raised
    /\ written.ids = <<1, 2>>
    /\ Len(batch) >= 2 /\ batch[1].type = "rigi" /\ batch[2].type = "tran"
    /\ Len(batch[2].entries) = 2 /\ batch[2].entries[1].id = 2
    /\ batch[2].entries[1].v # batch[2].entries[2].v
    /\ written.positions = <<(<<batch[2].entries[2].v>>), (<<batch[2].entries[1].v>>)>>

\* C14: in a written static group, mass (with the frictions and the
\* bounciness), color and scale have one entry for each id of object_ids,
\* and entry k describes the object whose id is at position k.
C14_StaticArraysMatchIds ==
    static_group.written =>
        /\ static_group.mass = static_group.object_ids
        /\ static_group.color = static_group.object_ids
        /\ static_group.scale = static_group.object_ids

\* C17: the object-ID list never holds the same id at two positions.
C17_ObjectIdsDistinct ==
    \A a, b \in 1..Len(lists.object_ids) :
        a # b => lists.object_ids[a] # lists.object_ids[b]

\* C18: a call of _get_object_position runs at most max_tries rounds of its
\* loop, whatever the list of placed objects, and returns: it ends, with a
\* point as its result, found free in the last round or accepted when the
\* rounds are used up. The loop of push_into_other runs at most 1000 rounds
\* and ends as well.
C18_PlacementReturnsWithinBudget ==
    /\ [](place.routine = "get_object_position" =>
            /\ place.count <= place.max_tries
            /\ place.pc = "returned" =>
                 /\ place.o_pos \in Points
                 /\ place.ok \/ place.count = place.max_tries)
    /\ [](place.routine = "push_into_other" => place.count <= PushTries)
    /\ <>(place.pc = "returned")

\* the routine returned for a list that leaves no point free, after all its
\* rounds
C18_Witness ==
    /\ place.pc = "returned" /\ place.routine = "get_object_position"
    /\ Len(place.object_positions) = 2
    /\ place.object_positions[1].radius = MaxPoint
    /\ place.max_tries = MaxTries /\ place.count = MaxTries /\ ~place.ok

\* the values a trial sampled, without the ids of its objects
Sampled(t) == [t EXCEPT !.object_ids = <<>>]

\* C19: with randomize off, the trials two runs with the same arguments
\* have both made sampled the same values, trial by trial: the same drop
\* height, drop position and physical parameters.
C19_SeededRunsAgree ==
    ~drop_cfg.randomize =>
        \A k \in 1..MaxDrops :
            (k <= Len(drops[1].trials) /\ k <= Len(drops[2].trials)) =>
                Sampled(drops[1].trials[k]) = Sampled(drops[2].trials[k])

\* both runs are through all their trials with randomize off; the heights
\* of the two trials of a run differ
C19_Witness ==
    /\ ~drop_cfg.randomize
    /\ Len(drops[1].trials) = MaxDrops /\ Len(drops[2].trials) = MaxDrops
    /\ drops[1].trials[1].height # drops[1].trials[2].height
    /\ drops[1].trials[1].object_ids # drops[2].trials[1].object_ids

InRange(v, range) == range[1] <= v /\ v <= range[2]

\* C20: the static data of every Drop trial list two object ids, the mass,
\* the frictions and the bounciness of both objects are inside their
\* sampling ranges, and the drop height is inside the configured range.
C20_DropStaticInRanges ==
    \A r \in DOMAIN drops : \A k \in 1..Len(drops[r].trials) :
        LET t == drops[r].trials[k] IN
        /\ Len(t.object_ids) = 2
        /\ \A j \in 1..2 :
             /\ Len(t.mass) = 2 /\ InRange(t.mass[j], MassRange)
             /\ InRange(t.static_friction[j], FrictionRange)
             /\ InRange(t.dynamic_friction[j], FrictionRange)
             /\ InRange(t.bounciness[j], BouncinessRange)
        /\ InRange(t.height, drop_cfg.height_range)
        /\ t.drop_position.y = t.height

\* a trial of the narrow height range whose height is not the lower end
C20_Witness ==
    /\ drop_cfg.height_range = <<75, 125>>
    /\ \E r \in DOMAIN drops :
         /\ Len(drops[r].trials) = MaxDrops
         /\ drops[r].trials[1].height > 100
         /\ drops[r].trials[2].mass[1] > 50

\* the command line names an asset outside the catalog or gives a scale that
\* is no numeric range
InvalidArgs ==
    \/ \E k \in 1..Len(argv.target) : argv.target[k] \notin MODEL_NAMES
    \/ ~argv.tscale.range

\* C21: if an asset name is not in the catalog or the range argument is
\* malformed, argument processing raises before the controller is constructed:
\* no command is sent to the Simulation Host and no trial starts.
C21_InvalidArgsNeverReachHost ==
    (argv.pc # "idle" /\ InvalidArgs) =>
        /\ argv.pc \in {"main", "exit"}
        /\ argv.sent = 0
        /\ argv.trials = 0

\* C22: between the recording of frame k-1 and the recording of frame k exactly
\* one batch of per-frame commands is generated, from the response recorded
\* as frame k-1, and sent: whenever the loop of Dataset.trial is about to
\* generate a batch, the last batch sent is the one whose response was
\* recorded as the current frame, and resp is that response.
C22_OneBatchPerRecordedFrame ==
    (driver = "Dataset" /\ pc = "loop" /\ ~done) =>
        /\ cmd_frame = frame
        /\ frame >= 1 => (resp.imag /\ resp.tran)

\* C23: at the start of a trial, when clear_static_data has run, the
\* bookkeeping of the runner holds nothing of an earlier trial: the object-ID
\* list, the per-object arrays and the physics-info map are empty.
C23_BookkeepingEmptyAtTrialStart ==
    build.pc = "target" =>
        /\ lists.object_ids = <<>>
        /\ lists.masses = <<>> /\ lists.colors = <<>> /\ lists.scales = <<>>
        /\ lists.physics_info = {}

\* C24: when a trial of Dataset is about to open the temp archive there is
\* no file at the temp path, in the first trial of a process and in every
\* later one, and the archive a trial works on holds only what that trial
\* wrote: it is the archive of trial i, created by it.
C24_TempAbsentWhenTrialOpens ==
    /\ (driver = "Dataset" /\ pc = "for") => ~temp.exists
    /\ (driver = "Dataset" /\ pc \in {"loop", "close", "move"}) =>
           /\ temp.exists /\ temp.trial = i
           /\ temp.frames = <<[lo |-> 0, hi |-> frame]>>

\* a restarted process that found a stale temp file, is past its first
\* trial and about to open the archive of the next one
C24_Witness ==
    /\ driver = "Dataset" /\ pc = "for"
    /\ prev_exit = "killed"
    /\ Len(executed) >= 1 /\ i < num
    /\ ~Exists(files, FinalPath(i))
    /\ ~temp.exists

\* the labels written into the frame that was recorded last
LastLabels == Labels(sleeping, complete)

\* C25: in a recorded frame trial_end is true if and only if exactly one of
\* trial_timeout and trial_complete is true.
C25_EndIffExactlyOneReason ==
    (driver = "Dataset" /\ pc = "loop" /\ cmd_frame = frame /\ InRuns(temp.labels, frame)) =>
        (LastLabels.trial_end <=> (LastLabels.trial_timeout # LastLabels.trial_complete))

\* C26: in Occlusion, get_per_frame_commands is never called while
\* per_frame_commands is empty, and a completed trial has recorded exactly one
\* frame for each camera position made by the trial initialization.
C26_OneFramePerCameraPosition ==
    /\ occl.pc # "raised"
    /\ occl.pc = "completed" => occl.recorded = Positions(1, occl.n)

\* C27: in a trial of Drop the sleep heuristic ends the trial at frames 1 to
\* 299 only; a trial it has not ended ends at frame 301, whose labels are
\* trial_complete true and trial_timeout false; no frame above 301 is
\* recorded.
C27_DropEndsBySleepOr301 ==
    (driver = "Dataset" /\ scenario = Drop /\ pc = "loop" /\ cmd_frame = frame) =>
        /\ temp.frames = <<[lo |-> 0, hi |-> frame]>>
        /\ frame <= DropDone + 1
        /\ ~done => frame <= DropDone
        /\ (done /\ sleeping) => frame \in 1..299
        /\ (done /\ ~sleeping) =>
              /\ frame = 301
              /\ Labels(sleeping, complete).trial_complete
              /\ ~Labels(sleeping, complete).trial_timeout

\* the trial has ended at frame 301, when every object was asleep
C27_Witness ==
    /\ driver = "Dataset" /\ scenario = Drop /\ pc = "loop" /\ cmd_frame = frame
    /\ frame = 301 /\ done /\ complete /\ ~sleeping
    /\ resp = Asleep
    /\ temp.frames = <<[lo |-> 0, hi |-> 301]>>

\* the index of the first trial run r has made, and its trial of index n
FirstTrial(r) == drops[r].i - Len(drops[r].trials)
HasTrial(r, n) == FirstTrial(r) <= n /\ n < drops[r].i
TrialAt(r, n) == drops[r].trials[n - FirstTrial(r) + 1]

\* C28: with randomize off, the configuration sampled for trial index n is
\* the same in the run that started on an empty directory and in the run
\* that was resumed after earlier trials.
C28_ResumedTrialAgrees ==
    ~drop_cfg.randomize =>
        \A n \in 0..(MaxDrops - 1) :
            (HasTrial(1, n) /\ HasTrial(2, n)) =>
                Sampled(TrialAt(1, n)) = Sampled(TrialAt(2, n))

\* C29: every object of a ToysDataset trial is added at the position that
\* was checked and recorded for it, and, when no call used up its rounds,
\* the position of the add command of an object is farther than the recorded
\* radius of every earlier object from the position of that object's add
\* command.
C29_CommandedIsRecordedPosition ==
    /\ \A k \in 1..Len(toys.commands) :
         toys.commands[k] = toys.object_positions[k].position
    /\ ~toys.exhausted =>
         \A j, k \in 1..Len(toys.commands) :
             j < k => Distance(toys.commands[j], toys.commands[k])
                         > toys.object_positions[j].radius

\* C30: no target color being configured, the target color of a Dominoes
\* trial is the one drawn in that trial, whatever an earlier trial has left
\* in self.target_color.
C30_TargetColorDrawnAfresh ==
    build.pc \in {"probe", "middle", "raised", "written"} =>
        lists.target_color = build.rgb
====
